---- MODULE Spec2Model ----
(***************************************************************************)
(* Model of panama-expat-data:                                             *)
(*   print_override_table.py  fetch_all / main   (paginated list reader)   *)
(*   push_csv.py              airtable_sync_linked and its helpers         *)
(*                            (get-or-create of parents, fact upsert)      *)
(* Text values (names, dates) are sequences of one-character strings, so   *)
(* that strip, quote-escaping and date parsing are computed, not assumed.  *)
(***************************************************************************)
EXTENDS Integers, Sequences, FiniteSets, TLC

VARIABLES
    \* ---- print_override_table.py ----
    pages,      \* the store's table: a sequence of pages, each a sequence of records
    nextTok,    \* nextTok[i]: the offset token the store returns with page i (None on the last)
    fenv,       \* main's env: whether .env.local exists and what it gives each key
    caller,     \* "main" (line 43, limit=10) or "call" (fetch_all called with another cap)
    limit,      \* fetch_all's limit argument
    out,        \* fetch_all's out list
    offset,     \* fetch_all's offset local
    params,     \* params["offset"] (None while the key is absent)
    fpc,        \* fetch_all's position: "idle" (not called), "loop", "returned", "raised"
    freqs,      \* list requests sent so far: the offset parameter of each
    fstat,      \* statuses of the list responses received so far
    recs,       \* main's recs (NotYet until fetch_all returns)
    printed,    \* records main has printed
    mpc         \* main's position: "start", "fetch", "print", "exit", "crash"

fvars == <<pages, nextTok, fenv, caller, limit, out, offset, params, fpc, freqs, fstat,
           recs, printed, mpc>>

VARIABLES
    \* ---- push_csv.py: the remote store ----
    tables,     \* tables[t]: the records of table t, in the store's order
    nextId,     \* the next record id the store hands out
    \* ---- push_csv.py: airtable_sync_linked ----
    env,        \* the env argument and the CSV file: token, base, whether CSV_OUT exists
    zeroPadYear,\* whether the C library's strftime pads %Y to four digits
    report,     \* the last line the function printed (NoReport before)
    rows,       \* rows = list(csv.DictReader(f))
    idx,        \* the row the for loop is at (1-based; Len(rows)+1 after the last)
    pc,         \* position: "start", "skipped", "row", "resolve", "create", "search", "patch", "patch2",
                \*           "post", "post2", "done"
    tbl,        \* the parent table being resolved ("Cities", then "Configs")
    cache,      \* cache.Cities = city_cache, cache.Configs = config_cache
    link,       \* link.Cities = city_id, link.Configs = config_id
    rec_id,     \* recs[0]["id"] of the fact search (None when recs is empty)
    updated, created, failures,
    \* ---- history of the run (not program state) ----
    rowlog,     \* the remote requests of the current row, each with its outcome
    finds,      \* the parent resolutions of this run: table, name, how each ended and
                \* the id get_or_create_linked returned (None when it raised)
    made,       \* ids of the records the store created during this run
    faults,     \* remote calls that did not succeed, so far
    neterr,     \* the row of the first network error of this run (0: none)
    tally,      \* which counter each finished row went to ("skipped": none)
    run,        \* which invocation of airtable_sync_linked this is
    snap        \* the store's tables as the previous run left them

svars == <<tables, nextId, env, zeroPadYear, report, rows, idx, pc, tbl, cache, link, rec_id, updated, created,
           failures, rowlog, finds, made, faults, neterr, tally, run, snap>>

vars == <<fvars, svars>>

\* ------------------------------------------------------------------------
\* Bounds of the model
MaxPages    == 3
MaxPageSize == 2
MaxLimit    == 3
MaxRows     == 2
MaxFaults   == 4

\* limit=10 in main's call of fetch_all
MainLimit == 10

None   == 0
NotYet == <<"not yet">>

\* What airtable_sync_linked has printed last: nothing yet, a warning, or the
\* summary with its counters.
NoReport == [kind |-> "none"]

Warning(text) == [kind |-> "warning", text |-> text]

\* The other program is not running: its variables rest at fixed values.
SyncIdle ==
    /\ tables = <<>> /\ nextId = 0 /\ rows = <<>> /\ idx = 0 /\ pc = "idle"
    /\ env = <<>> /\ zeroPadYear = FALSE /\ report = NoReport
    /\ tbl = "" /\ cache = <<>> /\ link = <<>> /\ rec_id = None
    /\ updated = 0 /\ created = 0 /\ failures = 0
    /\ rowlog = <<>> /\ finds = <<>> /\ made = {} /\ faults = 0 /\ neterr = 0
    /\ tally = <<>> /\ run = 0 /\ snap = <<>>

FetchIdle ==
    /\ pages = <<>> /\ nextTok = <<>> /\ fenv = <<>> /\ caller = "" /\ limit = 0
    /\ out = <<>>
    /\ offset = None /\ params = None /\ fpc = "idle" /\ freqs = <<>> /\ fstat = <<>>
    /\ recs = NotYet /\ printed = <<>> /\ mpc = "idle"

Min(a, b) == IF a <= b THEN a ELSE b

RECURSIVE Flatten(_)
Flatten(ss) == IF ss = <<>> THEN <<>> ELSE Head(ss) \o Flatten(Tail(ss))

RECURSIVE SumSeq(_)
SumSeq(ns) == IF ns = <<>> THEN 0 ELSE Head(ns) + SumSeq(Tail(ns))

\* ------------------------------------------------------------------------
\* The remote store's list endpoint (GET /{base}/{table}): records numbered in
\* the store's return order, cut into pages; page i carries an opaque offset
\* token for page i+1, the last page carries none.
Tokens == 1..MaxPages

PageSizes == UNION {[1..k -> 0..MaxPageSize] : k \in 1..MaxPages}

PagesOf(sz) ==
    [i \in 1..Len(sz) |->
        [j \in 1..sz[i] |-> SumSeq(SubSeq(sz, 1, i - 1)) + j]]

TokenChains(k) ==
    {t \in [1..k -> Tokens \cup {None}] :
        /\ t[k] = None
        /\ \A i \in 1..(k - 1) : t[i] # None
        /\ \A i, j \in 1..(k - 1) : i # j => t[i] # t[j]}

AllRecords == Flatten(pages)

\* The page a list request with this offset parameter is answered with.
PageIndex(off) ==
    IF off = None THEN 1
    ELSE 1 + CHOOSE i \in 1..Len(pages) : nextTok[i] = off

\* HTTP statuses the store may answer a list request with.
ListStatuses == {200, 304, 404, 500}

\* requests' Response.raise_for_status(): raises for 4xx and 5xx only.
RaisesForStatus(status) == 400 <= status /\ status < 600

\* Mutant: the offset is not tested, the loop goes on whatever the response carried.
TruthyAlways(x) == TRUE

\* Python truthiness of an offset value (None is falsy, a token is not).
Truthy(x) == x # None

\* Mutant: the page is appended whole, the cap is not tested inside the page.
AppendWholePage(acc, records, cap) == acc \o records

\* for rec in data.get("records", []): out.append(rec); if len(out) >= limit: break
RECURSIVE AppendUpTo(_, _, _)
AppendUpTo(acc, records, cap) ==
    IF records = <<>> THEN acc
    ELSE LET acc2 == Append(acc, Head(records))
         IN  IF Len(acc2) >= cap THEN acc2
             ELSE AppendUpTo(acc2, Tail(records), cap)

\* ------------------------------------------------------------------------
\* main's configuration (print_override_table.py 10-17, 40-44): .env.local may
\* not exist; when it does, each key main reads is absent from it, present
\* with an empty value (KEY=), or set.
MainKeys == {"AIRTABLE_BASE", "AIRTABLE_OVERRIDES_TABLE", "AIRTABLE_TOKEN"}

KeyStates == {"absent", "empty", "set"}

NoEnvFile == [k \in MainKeys \cup {"file"} |-> IF k = "file" THEN FALSE ELSE "absent"]

EnvFiles ==
    {[k \in MainKeys \cup {"file"} |-> IF k = "file" THEN TRUE ELSE e[k]] :
        e \in [MainKeys -> KeyStates]}

FullEnv == [k \in MainKeys \cup {"file"} |-> IF k = "file" THEN TRUE ELSE "set"]

\* path.read_text raises when the file is missing (line 12); env["KEY"]
\* raises KeyError when the key is absent (line 43).
MainRaises == ~fenv.file \/ \E k \in MainKeys : fenv[k] = "absent"

\* The store accepts requests only with a base, a table and a token.
Authorized == \A k \in MainKeys : fenv[k] = "set"

\* ------------------------------------------------------------------------
\* fetch_all (print_override_table.py 19-37)

\* The table of the store: any split of its records into pages, any chain of
\* tokens.
AnyTable ==
    \E sz \in PageSizes :
        /\ pages = PagesOf(sz)
        /\ nextTok \in TokenChains(Len(sz))

\* A main whose configuration is incomplete never reads the table (the store
\* refuses the request, if one is sent at all): the table is one empty page.
InitFetch ==
    /\ \/ /\ caller = "main" /\ limit = MainLimit
          /\ fenv = FullEnv
          /\ AnyTable
          /\ fpc = "idle" /\ mpc = "start"
       \/ /\ caller = "main" /\ limit = MainLimit
          /\ fenv \in (EnvFiles \cup {NoEnvFile}) \ {FullEnv}
          /\ pages = <<<<>>>> /\ nextTok = <<None>>
          /\ fpc = "idle" /\ mpc = "start"
       \/ /\ caller = "call" /\ limit \in 0..MaxLimit
          /\ fenv = FullEnv
          /\ AnyTable
          /\ fpc = "loop" /\ mpc = "fetch"
    /\ out = <<>>
    /\ offset = None
    /\ params = None
    /\ freqs = <<>>
    /\ fstat = <<>>
    /\ recs = NotYet
    /\ printed = <<>>
    /\ SyncIdle

\* main, lines 40-44: read .env.local, take the three keys, call fetch_all
MainStart ==
    /\ mpc = "start"
    /\ IF MainRaises
       THEN mpc' = "crash" /\ UNCHANGED fpc
       ELSE mpc' = "fetch" /\ fpc' = "loop"
    /\ UNCHANGED <<pages, nextTok, fenv, caller, limit, out, offset, params, freqs, fstat,
                   recs, printed>>
    /\ UNCHANGED svars

\* while True and len(out) < limit: ... (condition false) ; return out
FetchReturn ==
    /\ fpc = "loop"
    /\ ~(Len(out) < limit)
    /\ fpc' = "returned"
    /\ recs' = out
    /\ mpc' = IF caller = "main" THEN "print" ELSE "exit"
    /\ UNCHANGED <<pages, nextTok, fenv, caller, limit, out, offset, params, freqs, fstat,
                   printed>>
    /\ UNCHANGED svars

\* One iteration of the loop: the request, the status check, the parse, the
\* appends and the decision to go on.  bodyOk says whether the body of a
\* non-2xx response parses as a JSON object (with no records and no offset).
FetchPage(status, bodyOk) ==
    /\ fpc = "loop"
    /\ Len(out) < limit
    /\ ~Authorized => RaisesForStatus(status)
    /\ LET sent == IF Truthy(offset) THEN offset ELSE params
           page == PageIndex(sent)
           data == IF status = 200
                   THEN [records |-> pages[page], offset |-> nextTok[page]]
                   ELSE [records |-> <<>>, offset |-> None]
           out2 == AppendUpTo(out, data.records, limit)
       IN  /\ params' = sent
           /\ freqs' = Append(freqs, sent)
           /\ fstat' = Append(fstat, status)
           /\ IF RaisesForStatus(status) \/ (status # 200 /\ ~bodyOk)
              THEN /\ fpc' = "raised"
                   /\ mpc' = "crash"
                   /\ UNCHANGED <<out, offset, recs>>
              ELSE /\ out' = out2
                   /\ offset' = data.offset
                   /\ IF ~Truthy(data.offset) \/ Len(out2) >= limit
                      THEN /\ fpc' = "returned"
                           /\ recs' = out2
                           /\ mpc' = IF caller = "main" THEN "print" ELSE "exit"
                      ELSE UNCHANGED <<fpc, recs, mpc>>
    /\ UNCHANGED <<pages, nextTok, fenv, caller, limit, printed>>
    /\ UNCHANGED svars

\* main: for i, rec in enumerate(recs, 1): print(...)
MainPrint ==
    /\ mpc = "print"
    /\ Len(printed) < Len(recs)
    /\ printed' = Append(printed, recs[Len(printed) + 1])
    /\ UNCHANGED <<pages, nextTok, fenv, caller, limit, out, offset, params, fpc, freqs, fstat,
                   recs, mpc>>
    /\ UNCHANGED svars

MainExit ==
    /\ mpc = "print"
    /\ Len(printed) = Len(recs)
    /\ mpc' = "exit"
    /\ UNCHANGED <<pages, nextTok, fenv, caller, limit, out, offset, params, fpc, freqs, fstat,
                   recs, printed>>
    /\ UNCHANGED svars

NextFetch ==
    \/ MainStart
    \/ FetchReturn
    \/ \E status \in ListStatuses, bodyOk \in BOOLEAN : FetchPage(status, bodyOk)
    \/ MainPrint
    \/ MainExit

SpecFetch == InitFetch /\ [][NextFetch]_vars

\* The interpreter runs the script on: each request returns or raises within
\* its timeout (timeout=30), and a step that can be taken is taken.
SpecFetchFair == SpecFetch /\ WF_vars(NextFetch)

\* ------------------------------------------------------------------------
\* Text helpers (push_csv.py).  A text is a sequence of one-character strings.

\* str.strip(): drop leading and trailing whitespace
RECURSIVE LStrip(_)
LStrip(s) == IF s # <<>> /\ Head(s) = " " THEN LStrip(Tail(s)) ELSE s

RECURSIVE RStrip(_)
RStrip(s) == IF s # <<>> /\ s[Len(s)] = " " THEN RStrip(SubSeq(s, 1, Len(s) - 1)) ELSE s

Strip(s) == RStrip(LStrip(s))

\* str.replace(a, b) for a one-character a
RECURSIVE Replace(_, _, _)
Replace(s, a, b) ==
    IF s = <<>> THEN <<>>
    ELSE (IF Head(s) = a THEN b ELSE <<Head(s)>>) \o Replace(Tail(s), a, b)

\* name_safe = (name or "").replace("'", "''")
QuoteSafe(name) == Replace(name, "'", <<"'", "'">>)

\* str.split(sep) for a one-character sep
RECURSIVE Split(_, _)
Split(s, sep) ==
    IF \A i \in 1..Len(s) : s[i] # sep THEN <<s>>
    ELSE LET k == CHOOSE i \in 1..Len(s) :
                      s[i] = sep /\ \A j \in 1..(i - 1) : s[j] # sep
         IN  <<SubSeq(s, 1, k - 1)>> \o Split(SubSeq(s, k + 1, Len(s)), sep)

DigitChars == <<"0", "1", "2", "3", "4", "5", "6", "7", "8", "9">>

IsDigit(c) == \E i \in 1..10 : DigitChars[i] = c

DigitVal(c) == (CHOOSE i \in 1..10 : DigitChars[i] = c) - 1

AllDigits(s) == \A i \in 1..Len(s) : IsDigit(s[i])

RECURSIVE NumVal(_)
NumVal(s) == IF s = <<>> THEN 0
             ELSE 10 * NumVal(SubSeq(s, 1, Len(s) - 1)) + DigitVal(s[Len(s)])

RECURSIVE NumText(_)
NumText(n) == IF n < 10 THEN <<DigitChars[n + 1]>>
              ELSE NumText(n \div 10) \o <<DigitChars[(n % 10) + 1]>>

\* Mutant: month and day are printed without the leading zero.
Pad2Bare(n) == NumText(n)

\* %m, %d of strftime: two digits
Pad2(n) == IF n < 10 THEN <<"0">> \o NumText(n) ELSE NumText(n)

\* ------------------------------------------------------------------------
\* fmt_date (push_csv.py 111-116): datetime.strptime against three formats in
\* order, re-emitted with strftime("%Y-%m-%d"); anything else passes through.

\* %m : 1[0-2] | 0[1-9] | [1-9]
MonthField(p) ==
    \/ Len(p) = 1 /\ IsDigit(p[1]) /\ p[1] # "0"
    \/ Len(p) = 2 /\ p[1] = "0" /\ IsDigit(p[2]) /\ p[2] # "0"
    \/ Len(p) = 2 /\ p[1] = "1" /\ p[2] \in {"0", "1", "2"}

\* %d : 3[01] | [12]\d | 0[1-9] | [1-9] | " "[1-9]
DayField(p) ==
    \/ Len(p) = 1 /\ IsDigit(p[1]) /\ p[1] # "0"
    \/ Len(p) = 2 /\ p[1] = "3" /\ p[2] \in {"0", "1"}
    \/ Len(p) = 2 /\ p[1] \in {"1", "2"} /\ IsDigit(p[2])
    \/ Len(p) = 2 /\ p[1] \in {"0", " "} /\ IsDigit(p[2]) /\ p[2] # "0"

\* %Y : \d\d\d\d      %y : \d\d
Year4Field(p) == Len(p) = 4 /\ AllDigits(p)
Year2Field(p) == Len(p) = 2 /\ AllDigits(p)

\* %y: 69..99 are 19xx, 00..68 are 20xx
Year2Val(p) == IF NumVal(p) >= 69 THEN 1900 + NumVal(p) ELSE 2000 + NumVal(p)

IsLeap(y) == (y % 4 = 0 /\ y % 100 # 0) \/ y % 400 = 0

DaysIn(y, m) ==
    IF m = 2 THEN (IF IsLeap(y) THEN 29 ELSE 28)
    ELSE IF m \in {4, 6, 9, 11} THEN 30 ELSE 31

\* datetime(y, m, d) exists (MINYEAR is 1)
ValidDate(y, m, d) == y >= 1 /\ m \in 1..12 /\ d >= 1 /\ d <= DaysIn(y, m)

NoDate == [ok |-> FALSE, y |-> 0, m |-> 0, d |-> 0]

MkDate(y, m, d) ==
    IF ValidDate(y, m, d) THEN [ok |-> TRUE, y |-> y, m |-> m, d |-> d] ELSE NoDate

DayVal(p) == NumVal(LStrip(p))

\* datetime.strptime(val, fmt) for fmt in "%m/%d/%Y", "%Y-%m-%d", "%m/%d/%y"
Strptime(val, fmt) ==
    IF fmt = "%Y-%m-%d"
    THEN LET p == Split(val, "-")
         IN  IF Len(p) = 3 /\ Year4Field(p[1]) /\ MonthField(p[2]) /\ DayField(p[3])
             THEN MkDate(NumVal(p[1]), NumVal(p[2]), DayVal(p[3]))
             ELSE NoDate
    ELSE LET p == Split(val, "/")
         IN  IF Len(p) = 3 /\ MonthField(p[1]) /\ DayField(p[2])
                /\ (IF fmt = "%m/%d/%Y" THEN Year4Field(p[3]) ELSE Year2Field(p[3]))
             THEN MkDate(IF fmt = "%m/%d/%Y" THEN NumVal(p[3]) ELSE Year2Val(p[3]),
                         NumVal(p[1]), DayVal(p[2]))
             ELSE NoDate

Pad4(n) ==
    IF n < 10 THEN <<"0", "0", "0">> \o NumText(n)
    ELSE IF n < 100 THEN <<"0", "0">> \o NumText(n)
    ELSE IF n < 1000 THEN <<"0">> \o NumText(n)
    ELSE NumText(n)

\* strftime("%Y-%m-%d"): the C library's strftime prints %Y either padded to
\* four digits or as the bare number, depending on the platform (pad).
Strftime(dt, pad) ==
    (IF pad THEN Pad4(dt.y) ELSE NumText(dt.y)) \o <<"-">> \o Pad2(dt.m) \o <<"-">> \o Pad2(dt.d)

DateFormats == <<"%m/%d/%Y", "%Y-%m-%d", "%m/%d/%y">>

RECURSIVE TryFormats(_, _, _)
TryFormats(val, fmts, pad) ==
    IF fmts = <<>> THEN val
    ELSE IF Strptime(val, Head(fmts)).ok THEN Strftime(Strptime(val, Head(fmts)), pad)
         ELSE TryFormats(val, Tail(fmts), pad)

\* fmt_date on a platform whose strftime pads %Y (pad) or does not
fmt_date_on(val, pad) == IF val = <<>> THEN val ELSE TryFormats(val, DateFormats, pad)

\* fmt_date on the platform the program runs on
fmt_date(val) == fmt_date_on(val, zeroPadYear)

\* to_float (push_csv.py 118-120): float(str(v).replace(",", "")), or v itself
\* when that does not parse.  Parsed values are [num |-> n]; decimal digit
\* strings are the parseable inputs of the model.
to_float(v) ==
    LET t == Replace(v, ",", <<>>)
    IN  IF t # <<>> /\ AllDigits(t) THEN [num |-> NumVal(t)] ELSE v


\* ------------------------------------------------------------------------
\* The CSV and the remote store as push_csv.py uses them

ParentTables == {"Cities", "Configs"}

NameA   == <<"A">>
NameO   == <<" ", "O", "'">>
NameX   == <<"X">>
DateUs  == <<"1", "/", "2", "/", "2", "0", "2", "5">>
DateFeb == <<"2", "0", "2", "5", "-", "0", "2", "-", "0", "1">>
Jan2    == <<"2", "0", "2", "5", "-", "0", "1", "-", "0", "2">>
Price   == <<"1", ",", "2", "0", "0">>

\* The rows a CSV of the model is made of, by the columns City/Neighborhood,
\* Configuration, Date and Average Price (USD); an absent or empty cell is
\* <<>> (r.get(..) or "").  Three rows with all required cells (two cities, two
\* dates, both date formats, a name to strip and to quote) and one row for each
\* way a required cell can be missing.
RowCells ==
    { [city |-> NameA, cfg |-> NameX,   date |-> DateUs,  price |-> Price],
      [city |-> NameO, cfg |-> NameX,   date |-> DateUs,  price |-> Price],
      [city |-> NameA, cfg |-> NameX,   date |-> DateFeb, price |-> Price],
      [city |-> <<>>,  cfg |-> NameX,   date |-> DateUs,  price |-> Price],
      [city |-> NameA, cfg |-> <<" ">>, date |-> DateUs,  price |-> Price],
      [city |-> NameA, cfg |-> NameX,   date |-> <<>>,    price |-> Price] }

CsvFiles == UNION {[1..n -> RowCells] : n \in 0..MaxRows}

\* Date cells over which fmt_date is exercised: the three accepted shapes and
\* two shapes that are not accepted, over month, day and year texts in and out
\* of range, and some texts that are no date at all.
MonthTexts == {<<"1">>, <<"0", "1">>, <<"1", "2">>, <<"1", "3">>, <<"0">>}

DayTexts ==
    {<<"2">>, <<"0", "2">>, <<" ", "2">>, <<"2", "9">>, <<"3", "0">>, <<"3", "1">>, <<"0">>}

Year4Texts ==
    {<<"2", "0", "2", "5">>, <<"2", "0", "2", "4">>, <<"0", "0", "9", "9">>,
     <<"0", "0", "0", "0">>}

Year2Texts == {<<"2", "5">>, <<"6", "8">>, <<"6", "9">>}

Joined(a, sep, b, c) == a \o <<sep>> \o b \o <<sep>> \o c

DateTexts ==
    {Joined(m, "/", d, y) : m \in MonthTexts, d \in DayTexts, y \in Year4Texts \cup Year2Texts}
    \cup {Joined(y, "-", m, d) : y \in Year4Texts, m \in MonthTexts, d \in DayTexts}
    \cup {Joined(y, "/", m, d) : y \in Year4Texts, m \in {<<"1">>}, d \in {<<"2">>}}
    \cup {Joined(m, "-", d, y) : m \in {<<"1">>}, d \in {<<"2">>}, y \in Year4Texts}
    \cup {<<" ">>, <<"J", "a", "n", " ", "5">>, DateUs \o <<" ">>, <<" ">> \o DateUs,
          <<"9", "9", "-", "0", "1", "-", "0", "2">>}

DateRows == {[city |-> NameA, cfg |-> NameX, date |-> d, price |-> Price] : d \in DateTexts}

\* What the store may hold before the run: nothing, the parents A and X, or
\* the parents and a fact linking them.
SeedParents ==
    [Cities  |-> <<[id |-> 1, name |-> NameA]>>,
     Configs |-> <<[id |-> 2, name |-> NameX]>>,
     Rents   |-> <<>>]

SeedFact ==
    [id |-> 3, city |-> 1, config_label |-> 2, effective_date |-> Jan2,
     average_price_usd |-> [num |-> 900], currency |-> "USD", active |-> TRUE]

SeedStores ==
    { [Cities |-> <<>>, Configs |-> <<>>, Rents |-> <<>>],
      SeedParents,
      [SeedParents EXCEPT !.Rents = <<SeedFact>>] }

\* The store hands out ids above those of the seeded records.
FirstSeedFreeId == SeedFact.id + 1

\* A quoted formula literal: '' stands for one quote, a lone quote is malformed.
RECURSIVE LitOk(_)
LitOk(lit) ==
    IF lit = <<>> THEN TRUE
    ELSE IF Head(lit) = "'"
         THEN Len(lit) >= 2 /\ lit[2] = "'" /\ LitOk(SubSeq(lit, 3, Len(lit)))
         ELSE LitOk(Tail(lit))

RECURSIVE Unquote(_)
Unquote(lit) ==
    IF lit = <<>> THEN <<>>
    ELSE IF Head(lit) = "'" THEN <<"'">> \o Unquote(SubSeq(lit, 3, Len(lit)))
         ELSE <<Head(lit)>> \o Unquote(Tail(lit))

\* maxRecords=1: the id of the first of the matching records (hits: their
\* positions in the table), or None
FirstId(rs, hits) ==
    IF hits = {} THEN None
    ELSE rs[CHOOSE i \in hits : \A j \in hits : i <= j].id

\* The display text of a link field: the primary field of the linked record.
Display(t, id) ==
    IF \E i \in 1..Len(tables[t]) : tables[t][i].id = id
    THEN tables[t][CHOOSE i \in 1..Len(tables[t]) : tables[t][i].id = id].name
    ELSE <<>>

\* GET with filterByFormula {primary}='lit'
StoreFind(t, lit) ==
    FirstId(tables[t], {i \in 1..Len(tables[t]) : tables[t][i].name = Unquote(lit)})

\* GET with filterByFormula AND(ARRAYJOIN({city})='..', ARRAYJOIN({config_label})='..',
\*                              {effective_date}='..')
StoreSearch(f) ==
    FirstId(tables.Rents,
            {i \in 1..Len(tables.Rents) :
                /\ Display("Cities", tables.Rents[i].city) = Unquote(f.city)
                /\ Display("Configs", tables.Rents[i].config_label) = Unquote(f.cfg)
                /\ tables.Rents[i].effective_date = Unquote(f.date)})

FormulaOk(f) == LitOk(f.city) /\ LitOk(f.cfg) /\ LitOk(f.date)

\* PATCH: the fields of the body replace the record's, the others stay
ApplyFields(rec, body) ==
    [k \in DOMAIN rec \cup DOMAIN body |-> IF k \in DOMAIN body THEN body[k] ELSE rec[k]]

StorePatch(id, body) ==
    [tables EXCEPT !.Rents =
        [i \in 1..Len(@) |-> IF @[i].id = id THEN ApplyFields(@[i], body) ELSE @[i]]]

\* POST: a new record with a fresh id, appended to the table
StorePost(t, body) ==
    [tables EXCEPT ![t] = Append(@, ApplyFields([id |-> nextId], body))]

\* How a remote call can end: a 2xx answer, a status >= 300, an exception of
\* the HTTP library (timeout, connection error), or, for a write, an exception
\* after the store has applied the request.
ReadOutcomes  == {"ok", "rejected", "neterr"}
WriteOutcomes == {"ok", "rejected", "neterr", "lost"}

Raised(o) == o \in {"neterr", "lost"}

\* The store answers a malformed formula with an error status.
Answer(o, wellFormed) == IF o = "ok" /\ ~wellFormed THEN "rejected" ELSE o

\* Mutant: the result is not stored in the cache.
PutNothing(m, k, v) == m

\* city_cache[city_name] = ... / config_cache[cfg_label] = ...
Put(m, k, v) == [n \in DOMAIN m \cup {k} |-> IF n = k THEN v ELSE m[n]]

\* ------------------------------------------------------------------------
\* airtable_sync_linked (push_csv.py 153-284)

\* lines 194-197: what the loop body derives from a row
RowValues(r, pad) ==
    [city_name |-> Strip(r.city),
     cfg_label |-> Strip(r.cfg),
     eff_date  |-> fmt_date_on(r.date, pad),
     price_val |-> to_float(r.price)]

\* The derived values of every row of the model, on either platform, computed
\* once.
Derived ==
    [padded |-> [r \in RowCells \cup DateRows |-> RowValues(r, TRUE)],
     plain  |-> [r \in RowCells \cup DateRows |-> RowValues(r, FALSE)]]

Row == rows[idx]

\* The values derived from the current row.
Values == IF zeroPadYear THEN Derived.padded[Row] ELSE Derived.plain[Row]

city_name  == Values.city_name
cfg_label  == Values.cfg_label
eff_date   == Values.eff_date
price_val  == Values.price_val

NameOf(t) == IF t = "Cities" THEN city_name ELSE cfg_label

\* Mutant: the name is quoted twice.
find_formula_twice(name) == QuoteSafe(QuoteSafe(name))

\* find_record_id_by_name's formula literal
find_formula(name) == QuoteSafe(name)

\* Mutant: the search uses the CSV's date text instead of the coerced date.
search_formula_raw_date ==
    [city |-> QuoteSafe(city_name), cfg |-> QuoteSafe(cfg_label), date |-> Row.date]

\* lines 218-226
search_formula ==
    [city |-> QuoteSafe(city_name), cfg |-> QuoteSafe(cfg_label), date |-> eff_date]

\* Mutant: the second attempt repeats the full payload.
minimal_with_optional ==
    [city |-> link.Cities, config_label |-> link.Configs,
     effective_date |-> eff_date, average_price_usd |-> price_val,
     currency |-> "USD", active |-> TRUE]

\* line 257 / 271
minimal ==
    [city |-> link.Cities, config_label |-> link.Configs,
     effective_date |-> eff_date, average_price_usd |-> price_val]

\* Mutant: the configuration's id is sent as the city link too.
fields_payload_config_twice ==
    [city |-> link.Configs, config_label |-> link.Configs,
     effective_date |-> eff_date, average_price_usd |-> price_val,
     currency |-> "USD", active |-> TRUE]

\* lines 240-248
fields_payload ==
    [city |-> link.Cities, config_label |-> link.Configs,
     effective_date |-> eff_date, average_price_usd |-> price_val,
     currency |-> "USD", active |-> TRUE]

\* Mutant: the lookup's result is ignored and a record is always created.
has_rec_id_never(id) == FALSE

\* line 147: if rec_id: return rec_id
has_rec_id(id) == id # None

\* line 136: fields = {primary_field: name}
create_fields(name) == [name |-> name]

\* Mutant: the search result is ignored and the fact is always created.
recs_nonempty_never(id) == FALSE

\* line 250: if recs:
recs_nonempty(id) == id # None

\* Mutant: any failure of the first attempt, a raised one too, leads to the fallback.
fallback_on_any_failure(o, attempt) == o # "ok" /\ attempt = 1

\* lines 255/269: a status >= 300 on the first attempt leads to the fallback
fallback(o, attempt) == o = "rejected" /\ attempt = 1

\* One remote request of the current row: the operation, the table, what it
\* is addressed with (formula literal, name or record id), the fields sent,
\* how it ended and what it returned (a record id or None).
Entry(op, t, arg, body, res, got) ==
    [row |-> idx, op |-> op, table |-> t, arg |-> arg, body |-> body, res |-> res,
     got |-> got]

\* The history of one remote call.
Note(o, res, e) ==
    /\ o # "ok" => faults < MaxFaults
    /\ rowlog' = Append(rowlog, e)
    /\ faults' = IF o = "ok" THEN faults ELSE faults + 1
    /\ neterr' = IF neterr = 0 /\ Raised(res) THEN idx ELSE neterr

\* The env argument (lines 154-158) and the CSV file (line 167): the token and
\* the base are absent, empty or set; the three table names fall back to
\* "Rents", "Cities" and "Configs" and are never missing.
SyncEnvs == [token : KeyStates, base : KeyStates, csv : BOOLEAN]

SyncEnvFull == [token |-> "set", base |-> "set", csv |-> TRUE]

\* line 164: not (token and base and rents_table and cities_table and configs_table)
missing_env == ~(env.token = "set" /\ env.base = "set")

\* Mutant: the configuration is resolved before the city.
ResolveOrderConfigFirst == <<"Configs", "Cities">>

\* lines 204-210: the city is resolved first, the configuration second
ResolveOrder == <<"Cities", "Configs">>

\* The state at the top of the loop (line 193), the configuration being
\* complete and the CSV loaded.  The dates of CsvFiles have four-digit years,
\* which every strftime prints alike: one kind of library stands for both here.
InitSync ==
    /\ FetchIdle
    /\ tables \in SeedStores
    /\ nextId = FirstSeedFreeId
    /\ env = SyncEnvFull
    /\ zeroPadYear = FALSE
    /\ report = NoReport
    /\ rows \in CsvFiles
    /\ idx = 1
    /\ pc = "row"
    /\ tbl = ResolveOrder[1]
    /\ cache = [Cities |-> <<>>, Configs |-> <<>>]
    /\ link = [Cities |-> None, Configs |-> None]
    /\ rec_id = None
    /\ updated = 0 /\ created = 0 /\ failures = 0
    /\ rowlog = <<>> /\ finds = <<>> /\ made = {} /\ faults = 0 /\ neterr = 0
    /\ tally = <<>>
    /\ run = 1 /\ snap = <<>>

\* continue: on to the next row
NextRow ==
    /\ idx' = idx + 1
    /\ pc' = "row"

\* Mutant: a failed row ends the loop (break instead of continue).
RowFailedBreak ==
    /\ failures' = failures + 1
    /\ tally' = Append(tally, "failed")
    /\ idx' = Len(rows) + 1
    /\ pc' = "row"

\* failures += 1; continue
RowFailed ==
    /\ failures' = failures + 1
    /\ tally' = Append(tally, "failed")
    /\ NextRow

\* Mutant: the date is not among the required values.
missing_required_but_date == ~(city_name # <<>> /\ cfg_label # <<>>)

\* line 199: if not (city_name and cfg_label and eff_date): continue
missing_required == ~(city_name # <<>> /\ cfg_label # <<>> /\ eff_date # <<>>)

\* lines 193-200: the top of the loop body, up to the required-field test
BeginRow ==
    /\ pc = "row"
    /\ idx <= Len(rows)
    /\ rowlog' = <<>>
    /\ tbl' = ResolveOrder[1]
    /\ IF missing_required
       THEN NextRow /\ tally' = Append(tally, "skipped")
       ELSE pc' = "resolve" /\ UNCHANGED <<idx, tally>>
    /\ UNCHANGED <<tables, nextId, env, zeroPadYear, report, rows, cache, link, rec_id,
                   updated, created, failures,
                   finds, made, faults, neterr, run, snap>>
    /\ UNCHANGED fvars

\* city_id = city_cache[city_name] / config_id = config_cache[cfg_label], then on
Resolved(t, id) ==
    /\ link' = [link EXCEPT ![t] = id]
    /\ IF t = ResolveOrder[1]
       THEN tbl' = ResolveOrder[2] /\ pc' = "resolve"
       ELSE tbl' = tbl /\ pc' = "search"
    /\ UNCHANGED <<idx, failures, tally>>

\* lines 204/208: the name is in the cache
CacheHit ==
    /\ pc = "resolve"
    /\ NameOf(tbl) \in DOMAIN cache[tbl]
    /\ Resolved(tbl, cache[tbl][NameOf(tbl)])
    /\ UNCHANGED <<tables, nextId, env, zeroPadYear, report, rows, cache, rec_id, updated,
                   created,
                   rowlog, finds, made, faults, neterr, run, snap>>
    /\ UNCHANGED fvars

\* get_or_create_linked, first half: find_record_id_by_name (122-131, 146-147)
FindParent(o) ==
    /\ pc = "resolve"
    /\ NameOf(tbl) \notin DOMAIN cache[tbl]
    /\ LET name == NameOf(tbl)
           lit  == find_formula(name)
           res  == Answer(o, LitOk(lit))
           id   == IF res = "ok" THEN StoreFind(tbl, lit) ELSE None
       IN  /\ Note(o, res, Entry("find", tbl, lit, <<>>, res, id))
           /\ finds' = Append(finds,
                  [table |-> tbl, name |-> name, id |-> id,
                   end |-> IF res # "ok" THEN "failed"
                           ELSE IF has_rec_id(id) THEN "found" ELSE "pending"])
           /\ IF res # "ok"
              THEN RowFailed /\ UNCHANGED <<cache, link, tbl>>
              ELSE IF has_rec_id(id)
                   THEN cache' = [cache EXCEPT ![tbl] = Put(@, name, id)]
                        /\ Resolved(tbl, id)
                   ELSE pc' = "create"
                        /\ UNCHANGED <<cache, link, tbl, idx, failures, tally>>
    /\ UNCHANGED <<tables, nextId, env, zeroPadYear, report, rows, rec_id, updated, created,
                   made, run, snap>>
    /\ UNCHANGED fvars

\* get_or_create_linked, second half: create_record_by_name (133-142, 148)
CreateParent(o) ==
    /\ pc = "create"
    /\ LET name == NameOf(tbl)
           body == create_fields(name)
           id   == IF o = "ok" THEN nextId ELSE None
       IN  /\ Note(o, o, Entry("create", tbl, body.name, body, o, id))
           /\ finds' = [finds EXCEPT ![Len(finds)].end =
                                        IF o = "ok" THEN "made" ELSE "failed",
                                    ![Len(finds)].id = id]
           /\ IF o \in {"ok", "lost"}
              THEN /\ tables' = StorePost(tbl, body)
                   /\ nextId' = nextId + 1
                   /\ made' = made \cup {nextId}
              ELSE UNCHANGED <<tables, nextId, made>>
           /\ IF o = "ok"
              THEN cache' = [cache EXCEPT ![tbl] = Put(@, name, id)]
                   /\ Resolved(tbl, id)
              ELSE RowFailed /\ UNCHANGED <<cache, link, tbl>>
    /\ UNCHANGED <<env, zeroPadYear, report, rows, rec_id, updated, created, run, snap>>
    /\ UNCHANGED fvars

\* lines 228-239: the fact search
SearchFact(o) ==
    /\ pc = "search"
    /\ LET res == Answer(o, FormulaOk(search_formula))
           id  == IF res = "ok" THEN StoreSearch(search_formula) ELSE None
       IN  /\ Note(o, res, Entry("search", "Rents", search_formula, <<>>, res, id))
           /\ IF res # "ok"
              THEN RowFailed /\ UNCHANGED rec_id
              ELSE /\ rec_id' = id
                   /\ pc' = IF recs_nonempty(id) THEN "patch" ELSE "post"
                   /\ UNCHANGED <<idx, failures, tally>>
    /\ UNCHANGED <<tables, nextId, env, zeroPadYear, report, rows, tbl, cache, link,
                   updated, created, finds, made,
                   run, snap>>
    /\ UNCHANGED fvars

\* lines 250-264: update the record found, full payload first, then minimal
PatchFact(o) ==
    /\ pc \in {"patch", "patch2"}
    /\ LET attempt == IF pc = "patch" THEN 1 ELSE 2
           body    == IF attempt = 1 THEN fields_payload ELSE minimal
       IN  /\ Note(o, o, Entry("patch", "Rents", rec_id, body, o, None))
           /\ tables' = IF o \in {"ok", "lost"} THEN StorePatch(rec_id, body) ELSE tables
           /\ IF o = "ok"
              THEN /\ updated' = updated + 1
                   /\ tally' = Append(tally, "updated")
                   /\ NextRow
                   /\ UNCHANGED failures
              ELSE IF fallback(o, attempt)
                   THEN pc' = "patch2" /\ UNCHANGED <<idx, failures, updated, tally>>
                   ELSE RowFailed /\ UNCHANGED updated
    /\ UNCHANGED <<nextId, env, zeroPadYear, report, rows, tbl, cache, link, rec_id,
                   created, finds, made, run, snap>>
    /\ UNCHANGED fvars

\* lines 265-278: create the fact, full payload first, then minimal
PostFact(o) ==
    /\ pc \in {"post", "post2"}
    /\ LET attempt == IF pc = "post" THEN 1 ELSE 2
           body    == IF attempt = 1 THEN fields_payload ELSE minimal
       IN  /\ Note(o, o, Entry("post", "Rents", None, body, o,
                               IF o = "ok" THEN nextId ELSE None))
           /\ IF o \in {"ok", "lost"}
              THEN /\ tables' = StorePost("Rents", body)
                   /\ nextId' = nextId + 1
                   /\ made' = made \cup {nextId}
              ELSE UNCHANGED <<tables, nextId, made>>
           /\ IF o = "ok"
              THEN /\ created' = created + 1
                   /\ tally' = Append(tally, "created")
                   /\ NextRow
                   /\ UNCHANGED failures
              ELSE IF fallback(o, attempt)
                   THEN pc' = "post2" /\ UNCHANGED <<idx, failures, created, tally>>
                   ELSE RowFailed /\ UNCHANGED created
    /\ UNCHANGED <<env, zeroPadYear, report, rows, tbl, cache, link, rec_id, updated, finds,
                   run, snap>>
    /\ UNCHANGED fvars

\* line 284: the loop is over, the summary is printed and the function returns
\* line 284: the counters the summary names
summary_line ==
    [kind |-> "summary", Updated |-> updated, Created |-> created, Failures |-> failures,
     Total |-> Len(rows)]

Summary ==
    /\ pc = "row"
    /\ idx > Len(rows)
    /\ pc' = "done"
    /\ report' = summary_line
    /\ UNCHANGED <<tables, nextId, env, zeroPadYear, rows, idx, tbl, cache, link, rec_id,
                   updated, created,
                   failures, rowlog, finds, made, faults, neterr, tally, run, snap>>
    /\ UNCHANGED fvars

\* The script is run again over the same CSV (main, 311-314).
Rerun ==
    /\ pc = "done"
    /\ run = 1
    /\ run' = run + 1
    /\ snap' = tables
    /\ idx' = 1
    /\ pc' = "row"
    /\ tbl' = ResolveOrder[1]
    /\ report' = NoReport
    /\ cache' = [Cities |-> <<>>, Configs |-> <<>>]
    /\ link' = [Cities |-> None, Configs |-> None]
    /\ rec_id' = None
    /\ updated' = 0 /\ created' = 0 /\ failures' = 0
    /\ rowlog' = <<>> /\ finds' = <<>> /\ made' = {} /\ neterr' = 0 /\ tally' = <<>>
    /\ UNCHANGED <<tables, nextId, env, zeroPadYear, rows, faults>>
    /\ UNCHANGED fvars

NextSync ==
    \/ BeginRow
    \/ CacheHit
    \/ \E o \in ReadOutcomes : FindParent(o)
    \/ \E o \in WriteOutcomes : CreateParent(o)
    \/ \E o \in ReadOutcomes : SearchFact(o)
    \/ \E o \in WriteOutcomes : PatchFact(o)
    \/ \E o \in WriteOutcomes : PostFact(o)
    \/ Summary

SpecSync == InitSync /\ [][NextSync]_vars

\* Every remote call returns or raises within its timeout (timeout=30), and the
\* loop is sequential: a step that can be taken is taken.
SpecSyncFair == SpecSync /\ WF_vars(NextSync)

\* The whole function, from its first line: the configuration is whatever the
\* caller passed, the CSV file exists or not.
InitConfig ==
    /\ FetchIdle
    /\ tables \in SeedStores
    /\ nextId = FirstSeedFreeId
    /\ env \in SyncEnvs
    /\ zeroPadYear \in BOOLEAN
    /\ report = NoReport
    /\ rows \in (IF env.csv THEN CsvFiles ELSE {<<>>})
    /\ idx = 1
    /\ pc = "start"
    /\ tbl = ResolveOrder[1]
    /\ cache = [Cities |-> <<>>, Configs |-> <<>>]
    /\ link = [Cities |-> None, Configs |-> None]
    /\ rec_id = None
    /\ updated = 0 /\ created = 0 /\ failures = 0
    /\ rowlog = <<>> /\ finds = <<>> /\ made = {} /\ faults = 0 /\ neterr = 0
    /\ tally = <<>>
    /\ run = 1 /\ snap = <<>>

\* lines 154-191: the two early returns, each with its warning, else the CSV
\* is loaded and the counters start at zero
CheckConfig ==
    /\ pc = "start"
    /\ IF missing_env
       THEN pc' = "skipped" /\ report' = Warning("missing AIRTABLE_* env values")
       ELSE IF ~env.csv
            THEN pc' = "skipped" /\ report' = Warning("CSV not found")
            ELSE pc' = "row" /\ UNCHANGED report
    /\ UNCHANGED <<tables, nextId, env, zeroPadYear, rows, idx, tbl, cache, link, rec_id,
                   updated, created, failures, rowlog, finds, made, faults, neterr, tally,
                   run, snap>>
    /\ UNCHANGED fvars

NextConfig ==
    \/ CheckConfig
    \/ NextSync

SpecConfig == InitConfig /\ [][NextConfig]_vars

\* CSV files over rows that differ in which required cells are there: all of
\* them, none for the city, blanks for the configuration, none or one blank
\* for the date.
BlankRows ==
    { [city |-> NameA, cfg |-> NameX,   date |-> DateUs,  price |-> Price],
      [city |-> <<>>,  cfg |-> NameX,   date |-> DateUs,  price |-> Price],
      [city |-> NameA, cfg |-> <<" ">>, date |-> DateUs,  price |-> Price],
      [city |-> NameA, cfg |-> NameX,   date |-> <<>>,    price |-> Price],
      [city |-> NameA, cfg |-> NameX,   date |-> <<" ">>, price |-> Price] }

BlankFiles == UNION {[1..n -> BlankRows] : n \in 0..MaxRows}

\* The whole function over such files, with any configuration.
InitBlanks ==
    /\ FetchIdle
    /\ tables \in SeedStores
    /\ nextId = FirstSeedFreeId
    /\ env \in SyncEnvs
    /\ zeroPadYear \in BOOLEAN
    /\ report = NoReport
    /\ rows \in (IF env.csv THEN BlankFiles ELSE {<<>>})
    /\ idx = 1
    /\ pc = "start"
    /\ tbl = ResolveOrder[1]
    /\ cache = [Cities |-> <<>>, Configs |-> <<>>]
    /\ link = [Cities |-> None, Configs |-> None]
    /\ rec_id = None
    /\ updated = 0 /\ created = 0 /\ failures = 0
    /\ rowlog = <<>> /\ finds = <<>> /\ made = {} /\ faults = 0 /\ neterr = 0
    /\ tally = <<>>
    /\ run = 1 /\ snap = <<>>

SpecBlanks == InitBlanks /\ [][NextConfig]_vars

\* One row whose Date cell is any of the date texts, against a store that
\* answers every call with success.
InitDates ==
    /\ FetchIdle
    /\ tables \in SeedStores
    /\ nextId = FirstSeedFreeId
    /\ env = SyncEnvFull
    /\ zeroPadYear \in BOOLEAN
    /\ report = NoReport
    /\ \E r \in DateRows : rows = <<r>>
    /\ idx = 1
    /\ pc = "row"
    /\ tbl = ResolveOrder[1]
    /\ cache = [Cities |-> <<>>, Configs |-> <<>>]
    /\ link = [Cities |-> None, Configs |-> None]
    /\ rec_id = None
    /\ updated = 0 /\ created = 0 /\ failures = 0
    /\ rowlog = <<>> /\ finds = <<>> /\ made = {} /\ faults = 0 /\ neterr = 0
    /\ tally = <<>>
    /\ run = 1 /\ snap = <<>>

NextDates ==
    \/ BeginRow
    \/ FindParent("ok")
    \/ CreateParent("ok")
    \/ SearchFact("ok")
    \/ PatchFact("ok")
    \/ PostFact("ok")
    \/ Summary

SpecDates == InitDates /\ [][NextDates]_vars

\* Two runs in sequence against a store that answers every call with success.
NextTwice ==
    \/ BeginRow
    \/ CacheHit
    \/ FindParent("ok")
    \/ CreateParent("ok")
    \/ SearchFact("ok")
    \/ PatchFact("ok")
    \/ PostFact("ok")
    \/ Summary
    \/ Rerun

SpecTwice == InitSync /\ [][NextTwice]_vars

\* ========================================================================
\* Claims about fetch_all and main (print_override_table.py), under SpecFetch

AllListsOk == \A i \in 1..Len(fstat) : fstat[i] = 200

\* C1: when every list response is a success, fetch_all returns exactly the
\* first min(limit, N) records of the table, in the store's order, none
\* duplicated or dropped across page boundaries.
C1_FetchAllPrefix ==
    (fpc = "returned" /\ AllListsOk) =>
        /\ out = SubSeq(AllRecords, 1, Min(limit, Len(AllRecords)))
        /\ recs = out

\* C1 witness: the cap falls inside the second page, after a page boundary.
C1_Witness ==
    /\ fpc = "returned" /\ AllListsOk
    /\ Len(freqs) = 2
    /\ Len(pages) = 3
    /\ Len(pages[1]) = 2 /\ Len(pages[2]) = 2
    /\ limit = 3
    /\ out = <<1, 2, 3>>

NonSuccess(status) == ~(200 <= status /\ status <= 299)

\* C2 (the claim as stated): once a list response had a status outside 2xx,
\* fetch_all does not return, and main neither receives nor prints a record.
C2_NonSuccessIsFatal ==
    (\E i \in 1..Len(fstat) : NonSuccess(fstat[i])) =>
        /\ fpc # "returned"
        /\ recs = NotYet
        /\ printed = <<>>

\* ========================================================================
\* Claims about airtable_sync_linked (push_csv.py)

\* The row the logged requests belong to, and its values.
LogRow == rowlog[1].row

NameAt(r, t) == IF t = "Cities" THEN Strip(rows[r].city) ELSE Strip(rows[r].cfg)

DateAt(r) == fmt_date(rows[r].date)

LogOf(t) == LET T(e) == e.table = t IN SelectSeq(rowlog, T)

Writes == LET T(e) == e.op \in {"patch", "post"} IN SelectSeq(rowlog, T)

Named(t, name) == {i \in 1..Len(tables[t]) : tables[t][i].name = name}

Count(seq, v) == Cardinality({i \in 1..Len(seq) : seq[i] = v})

\* The counters are what the tally says.
CountersAreTally ==
    /\ updated = Count(tally, "updated")
    /\ created = Count(tally, "created")
    /\ failures = Count(tally, "failed")

\* C3: a parent is resolved by one exact-match lookup on its name; a record
\* found is returned and nothing is created; when none is found exactly one
\* create is sent, its primary field is the name, and the new id is returned.
C3_GetOrCreate ==
    \A t \in ParentTables :
        LET E == LogOf(t)
            name == NameAt(LogRow, t)
        IN  E # <<>> =>
              /\ E[1].op = "find" /\ LitOk(E[1].arg) /\ Unquote(E[1].arg) = name
              /\ Len(E) <= 2
              /\ E[1].res # "ok" => Len(E) = 1
              /\ (E[1].res = "ok" /\ E[1].got # None) =>
                    /\ Len(E) = 1
                    /\ link[t] = E[1].got
                    /\ Display(t, E[1].got) = name
              /\ (E[1].res = "ok" /\ E[1].got = None) =>
                    \/ Len(E) = 1 /\ pc = "create" /\ tbl = t /\ Named(t, name) = {}
                    \/ /\ Len(E) = 2
                       /\ E[2].op = "create"
                       /\ E[2].body = [name |-> name]
                       /\ E[2].res = "ok" =>
                             /\ link[t] = E[2].got
                             /\ E[2].got \in made
                             /\ Display(t, E[2].got) = name

\* C3 witness: the city is not found and is created, the configuration is found.
C3_Witness ==
    /\ Len(rowlog) >= 3
    /\ rowlog[1].op = "find" /\ rowlog[1].table = "Cities"
    /\ rowlog[1].res = "ok" /\ rowlog[1].got = None
    /\ rowlog[2].op = "create" /\ rowlog[2].res = "ok" /\ rowlog[2].arg = <<"O", "'">>
    /\ rowlog[3].op = "find" /\ rowlog[3].table = "Configs"
    /\ rowlog[3].res = "ok" /\ rowlog[3].got # None

\* C4: a row that reaches fact synchronization searches the fact table by
\* (city text, configuration text, effective date); after a search that found
\* a record only PATCH requests to that record's id are sent for the row,
\* after one that found none only POST requests.
C4_SearchThenWrite ==
    LET S == LET T(e) == e.op = "search" IN SelectSeq(rowlog, T)
    IN  /\ Len(S) <= 1
        /\ (pc \in {"patch", "patch2", "post", "post2"} \/ Writes # <<>>) => Len(S) = 1
        /\ S # <<>> =>
             /\ S[1].table = "Rents"
             /\ FormulaOk(S[1].arg)
             /\ Unquote(S[1].arg.city) = NameAt(LogRow, "Cities")
             /\ Unquote(S[1].arg.cfg) = NameAt(LogRow, "Configs")
             /\ S[1].arg.date = DateAt(LogRow)
        /\ \A k \in 1..Len(rowlog) :
             rowlog[k].op \in {"patch", "post"} =>
               /\ \E j \in 1..(k - 1) : rowlog[j].op = "search" /\ rowlog[j].res = "ok"
               /\ rowlog[k].table = "Rents"
               /\ IF S[1].got # None
                  THEN rowlog[k].op = "patch" /\ rowlog[k].arg = S[1].got
                  ELSE rowlog[k].op = "post"

\* C4 witness: the search found the seeded fact and two updates went to it.
C4_Witness ==
    /\ Len(Writes) = 2
    /\ \E j \in 1..Len(rowlog) :
         rowlog[j].op = "search" /\ rowlog[j].got = SeedFact.id
    /\ Writes[1].op = "patch" /\ Writes[2].op = "patch"
    /\ rows[LogRow].date = DateUs

Mandatory == {"city", "config_label", "effective_date", "average_price_usd"}

\* The shape of a row's write attempts: the first carries the full payload, a
\* second one follows only a rejected first and carries the mandatory fields
\* only, and there are never more than two.
WriteAttempts ==
    LET W == Writes
    IN  /\ Len(W) <= 2
        /\ W # <<>> =>
             /\ DOMAIN W[1].body = Mandatory \cup {"currency", "active"}
             /\ W[1].body.currency = "USD" /\ W[1].body.active = TRUE
        /\ Len(W) = 2 =>
             /\ W[1].res = "rejected"
             /\ W[2].op = W[1].op
             /\ DOMAIN W[2].body = Mandatory
             /\ \A k \in Mandatory : W[2].body[k] = W[1].body[k]
        /\ (pc \in {"patch2", "post2"}) => (Len(W) = 1 /\ W[1].res = "rejected")

\* The row of the log has been counted.
LogRowCounted == rowlog # <<>> /\ Len(tally) >= LogRow

BothRejected == Len(Writes) = 2 /\ Writes[1].res = "rejected" /\ Writes[2].res = "rejected"

\* C5 (the claim as stated): ... and a row with a write attempt is counted as a
\* failure if and only if both attempts were rejected.
C5_FailedIffBothRejected ==
    /\ WriteAttempts
    /\ (Writes # <<>> /\ LogRowCounted) =>
         (tally[LogRow] = "failed" <=> BothRejected)

\* C5 (amended): ... and a row with a write attempt is counted as a failure if
\* and only if both attempts were rejected or an attempt raised; otherwise it
\* is counted as updated (PATCH) or created (POST).
C5_WriteFallback ==
    /\ WriteAttempts
    /\ CountersAreTally
    /\ (Writes # <<>> /\ LogRowCounted) =>
         /\ tally[LogRow] = "failed" <=>
               (BothRejected \/ \E k \in 1..Len(Writes) : Raised(Writes[k].res))
         /\ tally[LogRow] # "failed" =>
               tally[LogRow] = (IF Writes[1].op = "patch" THEN "updated" ELSE "created")

\* C5 witness: both attempts of a row were rejected and the row is a failure.
C5_Witness ==
    /\ BothRejected
    /\ LogRowCounted
    /\ tally[LogRow] = "failed"
    /\ failures = 1

SameName(i, j) == finds[i].table = finds[j].table /\ finds[i].name = finds[j].name

\* C6 (the claim as stated): at most one lookup per (table, name) in a run,
\* whatever fails.
C6_OneLookupPerName ==
    \A i, j \in 1..Len(finds) : (i < j) => ~SameName(i, j)

\* C6 (amended): a successful resolution is cached, and a lookup for a name
\* is sent again only when every earlier resolution of that name failed.
C6_LookupAgainOnlyAfterFailure ==
    /\ \A i, j \in 1..Len(finds) : (i < j /\ SameName(i, j)) => finds[i].end = "failed"
    /\ \A i \in 1..Len(finds) :
         finds[i].end \in {"found", "made"} => finds[i].name \in DOMAIN cache[finds[i].table]

\* C6 witness: two rows with the same city and configuration, one lookup each.
C6_Witness ==
    /\ pc = "done"
    /\ Len(rows) = 2
    /\ NameAt(1, "Cities") = NameAt(2, "Cities")
    /\ \A r \in 1..2 : tally[r] \in {"updated", "created"}
    /\ Len(finds) = 2

\* C7: in one run at most one parent record of a given name is created in a
\* parent table, whatever is rejected or raises.
C7_AtMostOneCreate ==
    \A t \in ParentTables :
        \A i, j \in 1..Len(tables[t]) :
            (tables[t][i].id \in made /\ tables[t][j].id \in made
               /\ tables[t][i].name = tables[t][j].name) => i = j

\* C7 witness: the create of a city raised after the store applied it, and
\* the next row, with the same city, found that record.
C7_Witness ==
    /\ Len(finds) >= 2
    /\ finds[1].table = "Cities" /\ finds[1].end = "failed"
    /\ finds[2].table = "Cities" /\ finds[2].end = "found"
    /\ finds[2].name = finds[1].name
    /\ \E i \in 1..Len(tables.Cities) :
         tables.Cities[i].id \in made /\ tables.Cities[i].name = finds[1].name

Ids(tt) == [t \in {"Cities", "Configs", "Rents"} |-> {tt[t][i].id : i \in 1..Len(tt[t])}]

Processed == {r \in 1..Len(tally) : tally[r] # "skipped"}

\* The fact records of the key of row r.
FactsOf(r) ==
    {i \in 1..Len(tables.Rents) :
        /\ Display("Cities", tables.Rents[i].city) = NameAt(r, "Cities")
        /\ Display("Configs", tables.Rents[i].config_label) = NameAt(r, "Configs")
        /\ tables.Rents[i].effective_date = DateAt(r)}

\* C8: with every call succeeding, a second run over the same CSV creates
\* nothing (every processed row is an update, the record ids of the store are
\* those the first run left), and rows with the same key make one fact record.
C8_Idempotent ==
    /\ run = 2 =>
         /\ made = {} /\ created = 0 /\ failures = 0
         /\ \A r \in Processed : tally[r] = "updated"
         /\ Ids(tables) = Ids(snap)
    /\ \A r \in Processed : Cardinality(FactsOf(r)) = 1
    /\ CountersAreTally

\* C8 witness: the second run is over; the first run created the fact of two
\* rows with the same key and the second run updated it twice.
C8_Witness ==
    /\ run = 2 /\ pc = "done"
    /\ Len(rows) = 2 /\ rows[1] = rows[2] /\ rows[1].city = NameO
    /\ updated = 2
    /\ Len(snap.Rents) = 1 /\ Len(tables.Rents) = 1

\* C9: rejected writes never abort the run: every row is processed, the summary
\* is reached, and no fact record is removed or, by a step that only counts a
\* failure, changed.
C9_NoAbort ==
    /\ <>(pc = "done")
    /\ [](pc = "done" => Len(tally) = Len(rows))
    /\ [][/\ Len(tables'.Rents) >= Len(tables.Rents)
          /\ \A i \in 1..Len(tables.Rents) :
               /\ tables'.Rents[i].id = tables.Rents[i].id
               /\ (failures' = failures + 1 /\ rowlog'[Len(rowlog')].res # "lost")
                     => tables'.Rents[i] = tables.Rents[i]]_vars

\* C9 witness: the first row created its fact, both write attempts of the
\* second row were rejected, the summary is reached and the fact is still there.
C9_Witness ==
    /\ pc = "done"
    /\ tally = <<"created", "failed">>
    /\ BothRejected
    /\ neterr = 0
    /\ Len(tables.Rents) = 1 /\ tables.Rents[1].id \in made

\* C10 (the claim as stated): after a network error no remote request is
\* issued for a later row.
C10_NoRequestAfterNetworkError ==
    neterr # 0 => \A k \in 1..Len(rowlog) : rowlog[k].row <= neterr

\* C10 (amended): a network error ends only its own row: it is the row's last
\* request, the row is counted as a failure, and the loop goes on to the next
\* row and to the summary.
C10_NetworkErrorFailsRow ==
    /\ \A k \in 1..Len(rowlog) :
         Raised(rowlog[k].res) =>
           /\ k = Len(rowlog)
           /\ Len(tally) >= LogRow /\ tally[LogRow] = "failed"
           /\ idx = LogRow + 1
           /\ pc \in {"row", "done"}
    /\ neterr # 0 => (Len(tally) >= neterr /\ tally[neterr] = "failed")
    /\ (pc = "done" /\ neterr # 0) => Len(tally) = Len(rows)

\* C10 witness: the first row hit a network error, the second row was synced.
C10_Witness ==
    /\ neterr = 1
    /\ pc = "done"
    /\ tally = <<"failed", "updated">>
    /\ rowlog # <<>> /\ LogRow = 2

\* The last finished row was skipped for a missing required field.
JustSkipped ==
    /\ pc \in {"row", "done"}
    /\ tally # <<>> /\ tally[Len(tally)] = "skipped" /\ idx = Len(tally) + 1

Skipped == Count(tally, "skipped")

\* C11 (the claim as stated): a row missing a required field causes no remote
\* request, and the run counts it in a skipped counter that its summary reports
\* alongside updated, created and failed.
C11_SkippedIsCounted ==
    /\ JustSkipped => rowlog = <<>>
    /\ (pc = "done" /\ Skipped > 0) =>
         /\ "Skipped" \in DOMAIN report
         /\ report.Skipped = Skipped

\* What the code does for such a row: nothing is sent, no counter moves, and
\* the summary names Updated, Created, Failures and Total only.
C11_SkippedIsSilent ==
    /\ JustSkipped => rowlog = <<>>
    /\ updated + created + failures = Len(tally) - Skipped
    /\ pc = "done" =>
         DOMAIN report = {"kind", "Updated", "Created", "Failures", "Total"}

\* main's configuration lacks a required value.
MainConfigMissing ==
    caller = "main" /\ (~fenv.file \/ \E k \in MainKeys : fenv[k] # "set")

\* C12 (the claim as stated, for print_override_table's main): with a required
\* configuration value missing the path is skipped: no list request is issued
\* and nothing raises.
C12_MissingConfigSkips ==
    MainConfigMissing =>
        /\ freqs = <<>>
        /\ mpc # "crash"
        /\ fpc # "raised"

\* What airtable_sync_linked does with a missing token or base (or a missing
\* CSV file): it prints a warning and returns, having sent nothing.
C12_SyncPathSkips ==
    /\ (missing_env \/ ~env.csv) =>
         /\ pc \in {"start", "skipped"}
         /\ rowlog = <<>> /\ finds = <<>> /\ made = {} /\ faults = 0
         /\ tables \in SeedStores
    /\ pc = "skipped" => (report.kind = "warning" /\ (missing_env \/ ~env.csv))
    /\ (pc # "start" /\ ~missing_env /\ env.csv) => pc # "skipped"

LinkField(t) == IF t = "Cities" THEN "city" ELSE "config_label"

\* The resolutions of this run that returned an id for the name in table t.
ReturnedFor(t, name) ==
    {i \in 1..Len(finds) :
        /\ finds[i].table = t /\ finds[i].name = name
        /\ finds[i].end \in {"found", "made"} /\ finds[i].id # None}

\* A request of the logged row before the fact write did not succeed.
ResolveOrSearchFailed ==
    \E k \in 1..Len(rowlog) :
        rowlog[k].op \in {"find", "create", "search"} /\ rowlog[k].res # "ok"

\* C13: a fact write follows a successful fact search and carries as city and
\* config link the ids lookup-or-create returned in this run for the row's own
\* names (ids of records bearing those names); a row whose parent resolution
\* or fact search did not succeed is counted as one failure and sends no write.
C13_WritesCarryResolvedParents ==
    /\ \A k \in 1..Len(rowlog) :
         rowlog[k].op \in {"patch", "post"} =>
           /\ \E j \in 1..(k - 1) : rowlog[j].op = "search" /\ rowlog[j].res = "ok"
           /\ \A t \in ParentTables :
                /\ \E i \in ReturnedFor(t, NameAt(LogRow, t)) :
                     rowlog[k].body[LinkField(t)] = finds[i].id
                /\ Display(t, rowlog[k].body[LinkField(t)]) = NameAt(LogRow, t)
    /\ (pc \in {"patch", "patch2", "post", "post2"}) =>
         \A t \in ParentTables : ReturnedFor(t, NameOf(t)) # {}
    /\ ResolveOrSearchFailed =>
         /\ Writes = <<>>
         /\ LogRowCounted
         /\ tally[LogRow] = "failed"
         /\ Len(tally) = LogRow
    /\ CountersAreTally

\* C13 witness: the second row found its city in the cache (resolved and
\* created by the first row) and its write carries that id.
C13_Witness ==
    /\ rowlog # <<>> /\ LogRow = 2
    /\ LogOf("Cities") = <<>>
    /\ Writes # <<>>
    /\ Writes[1].body.city \in made
    /\ Writes[1].body.city = finds[1].id
    /\ finds[1].end = "made"
    /\ rows[1].date # rows[2].date

\* ========================================================================
\* More claims about fetch_all (print_override_table.py)

\* The offset the store returned with the i-th list response (None: none).
RespOffset(i) == IF fstat[i] = 200 THEN nextTok[PageIndex(freqs[i])] ELSE None

\* The records the store returned with the i-th list response.
RespRecords(i) == IF fstat[i] = 200 THEN pages[PageIndex(freqs[i])] ELSE <<>>

\* How many records the first n responses carried.
RECURSIVE Carried(_)
Carried(n) == IF n = 0 THEN 0 ELSE Carried(n - 1) + Len(RespRecords(n))

\* C14: fetch_all stops paging at the right moment: a request follows a
\* response only if that response carried an offset and the records collected
\* so far are fewer than the cap; each request after the first carries the
\* offset of the response before it and the first carries none; a cap of 0
\* sends no request; once fetch_all has returned or raised it sends nothing;
\* and fetch_all terminates.
C14_StopsPaging ==
    /\ [](/\ Len(fstat) = Len(freqs)
          /\ freqs # <<>> => freqs[1] = None
          /\ \A i \in 2..Len(freqs) :
               /\ RespOffset(i - 1) # None
               /\ freqs[i] = RespOffset(i - 1)
               /\ Carried(i - 1) < limit
          /\ limit = 0 => freqs = <<>>
          /\ fpc = "returned" =>
               (freqs # <<>> =>
                  (RespOffset(Len(freqs)) = None \/ Carried(Len(freqs)) >= limit)))
    /\ [][(fpc \in {"returned", "raised"}) => (freqs' = freqs)]_vars
    /\ (fpc = "loop") ~> (fpc \in {"returned", "raised"})

\* C14 witness: main followed three tokens, not in numeric order, over a page
\* with no records, to the response without offset.
C14_Witness ==
    /\ caller = "main" /\ fpc = "returned"
    /\ Len(freqs) = 3 /\ AllListsOk
    /\ freqs[2] > freqs[3]
    /\ Len(pages[2]) = 0
    /\ Len(out) = 3

\* ========================================================================
\* More claims about airtable_sync_linked (push_csv.py)

\* The stage of a row a request belongs to.
Phase(e) ==
    IF e.table = "Cities" THEN 1
    ELSE IF e.table = "Configs" THEN 2
    ELSE IF e.op = "search" THEN 3
    ELSE 4

\* C15: rows are processed strictly in CSV order, one request at a time: the
\* loop moves from a row to the next one only, every request is sent for the
\* row the loop is at and before the loop leaves it, and within a row the
\* requests go city resolution, configuration resolution, fact search, fact
\* write.
C15_RowsInOrder ==
    /\ [](/\ \A k \in 1..Len(rowlog) : rowlog[k].row = LogRow
          /\ rowlog # <<>> => (LogRow = idx \/ (LogRow = idx - 1 /\ pc \in {"row", "done"}))
          /\ \A j, k \in 1..Len(rowlog) : (j < k) => Phase(rowlog[j]) <= Phase(rowlog[k])
          /\ pc \in {"row", "done"} => Len(tally) = idx - 1)
    /\ [][/\ run' = run => idx' \in {idx, idx + 1}
          /\ (rowlog' # rowlog /\ rowlog' # <<>>) =>
               /\ rowlog'[Len(rowlog')].row = idx
               /\ idx <= Len(rows)
               /\ rowlog' = Append(rowlog, rowlog'[Len(rowlog')])]_vars

\* C15 witness: the second row went through all four stages after the first
\* row had sent its requests.
C15_Witness ==
    /\ rowlog # <<>> /\ LogRow = 2
    /\ tally[1] \in {"created", "failed"}
    /\ {Phase(rowlog[k]) : k \in 1..Len(rowlog)} = {1, 2, 3, 4}
    /\ pc = "done"

\* Canonical ISO form: YYYY-MM-DD.
IsoText(t) ==
    /\ Len(t) = 10
    /\ t[5] = "-" /\ t[8] = "-"
    /\ \A i \in {1, 2, 3, 4, 6, 7, 9, 10} : IsDigit(t[i])

\* The text matches one of the accepted formats.
Accepted(x) == \E i \in 1..Len(DateFormats) : Strptime(x, DateFormats[i]).ok

\* The date the first matching format reads from the text.
Parsed(x) ==
    Strptime(x, DateFormats[CHOOSE i \in 1..Len(DateFormats) :
                                /\ Strptime(x, DateFormats[i]).ok
                                /\ \A j \in 1..(i - 1) : ~Strptime(x, DateFormats[j]).ok])

\* The Date cell of the one row, and the effective dates sent for it.
Cell == rows[1].date

SentDates ==
    {rowlog[k].arg.date : k \in {j \in 1..Len(rowlog) : rowlog[j].op = "search"}}
    \cup {rowlog[k].body.effective_date :
            k \in {j \in 1..Len(rowlog) : rowlog[j].op \in {"patch", "post"}}}

\* C16 (the claim as stated), for a row whose date has been sent: fmt_date is
\* idempotent, an accepted input comes out in canonical ISO form, and every
\* effective date sent to the store is in canonical ISO form.
C16_AlwaysCanonical ==
    SentDates # {} =>
        /\ fmt_date(fmt_date(Cell)) = fmt_date(Cell)
        /\ Accepted(Cell) => IsoText(fmt_date(Cell))
        /\ \A d \in SentDates : IsoText(d)

\* C16 (amended): fmt_date is idempotent; an accepted input comes out as the
\* same date written year-month-day with two-digit month and day, in canonical
\* ISO form whenever the year has four digits or strftime pads it; any other
\* input comes out unchanged; and the effective date sent to the store is
\* fmt_date of the row's Date cell.
C16_CanonicalWhenAccepted ==
    /\ fmt_date(fmt_date(Cell)) = fmt_date(Cell)
    /\ \A d \in SentDates : d = fmt_date(Cell) /\ fmt_date(d) = d
    /\ Accepted(Cell) =>
         LET p == Split(fmt_date(Cell), "-")
         IN  /\ Len(p) = 3
             /\ \A i \in 1..3 : p[i] # <<>> /\ AllDigits(p[i])
             /\ Len(p[2]) = 2 /\ Len(p[3]) = 2
             /\ NumVal(p[1]) = Parsed(Cell).y
             /\ NumVal(p[2]) = Parsed(Cell).m
             /\ NumVal(p[3]) = Parsed(Cell).d
             /\ (zeroPadYear \/ Parsed(Cell).y >= 1000) => IsoText(fmt_date(Cell))
    /\ ~Accepted(Cell) => fmt_date(Cell) = Cell

\* C16 witness: the cell 1/ 2/25 was sent as 2025-01-02, which found the
\* seeded fact of that date, and the fact was updated with it.
C16_Witness ==
    /\ Cell = <<"1", "/", " ", "2", "/", "2", "5">>
    /\ pc = "done" /\ tally = <<"updated">>
    /\ SentDates = {Jan2}
    /\ rec_id = SeedFact.id

Classes == {"updated", "created", "failed", "skipped"}

\* The cells of row r are not empty.
NonEmptyCells(r) == rows[r].city # <<>> /\ rows[r].cfg # <<>> /\ rows[r].date # <<>>

\* The cells of row r are not blank (empty or whitespace only).
NonBlankCells(r) ==
    Strip(rows[r].city) # <<>> /\ Strip(rows[r].cfg) # <<>> /\ Strip(rows[r].date) # <<>>

\* What line 199 requires of row r: a city and a configuration that are not
\* blank, and a date that is not empty.
Required(r) ==
    Strip(rows[r].city) # <<>> /\ Strip(rows[r].cfg) # <<>> /\ rows[r].date # <<>>

\* Every row the loop has left is in exactly one class, and the counters count
\* the classes.
OneClassPerRow ==
    /\ pc \in {"start", "skipped"} => (tally = <<>> /\ updated + created + failures = 0)
    /\ Len(tally) = idx - 1
    /\ \A r \in 1..Len(tally) : tally[r] \in Classes
    /\ CountersAreTally
    /\ updated + created + failures + Skipped = Len(tally)

\* C17 (the claim as stated): ... at the summary updated + created + failures is
\* the number of CSV rows with non-empty city, configuration and date, and is
\* not greater than the reported total.
C17_CountsNonEmptyRows ==
    /\ OneClassPerRow
    /\ pc = "done" =>
         /\ updated + created + failures =
              Cardinality({r \in 1..Len(rows) : NonEmptyCells(r)})
         /\ updated + created + failures <= report.Total

\* The same with non-empty read as not blank.
C17_CountsNonBlankRows ==
    /\ OneClassPerRow
    /\ pc = "done" =>
         /\ updated + created + failures =
              Cardinality({r \in 1..Len(rows) : NonBlankCells(r)})
         /\ updated + created + failures <= report.Total

\* C17 (amended): ... at the summary updated + created + failures is the number
\* of CSV rows whose city and configuration are non-empty after stripping
\* whitespace and whose date is non-empty, the rows skipped are exactly the
\* others, and the sum is not greater than the reported total, the number of
\* CSV rows.
C17_Accounting ==
    /\ OneClassPerRow
    /\ \A r \in 1..Len(tally) : tally[r] = "skipped" <=> ~Required(r)
    /\ pc = "done" =>
         /\ report = summary_line
         /\ report.Total = Len(rows)
         /\ report.Updated + report.Created + report.Failures =
              Cardinality({r \in 1..Len(rows) : Required(r)})
         /\ report.Updated + report.Created + report.Failures <= report.Total

\* C17 witness: a row with a blank configuration was skipped, a row with a
\* blank date was synced, and the summary counts one of two.
C17_Witness ==
    /\ pc = "done"
    /\ Len(rows) = 2
    /\ rows[1].cfg = <<" ">> /\ rows[2].date = <<" ">>
    /\ tally = <<"skipped", "created">>
    /\ report.Created = 1 /\ report.Total = 2

====
